---- MODULE Spec2Model ----
(***************************************************************************)
(* A model of pydyf (src/pydyf/__init__.py), a low-level PDF generator:    *)
(* the object model (Dictionary, Array, Stream, String and the generic     *)
(* conversion _to_data) and the document assembler (class PDF).            *)
(*                                                                         *)
(* Representation.  Python `bytes` are TLA+ strings.  Python `str` are     *)
(* tuples of Unicode code points, so that str.encode is a real conversion  *)
(* that can fail.  Python values are records tagged by `kind`.  Objects    *)
(* registered with a PDF live in `heap` and are named by an identity, as   *)
(* Python names them by reference.                                         *)
(***************************************************************************)
EXTENDS Integers, Sequences, FiniteSets, TLC

VARIABLES
    heap,              \* identity -> object (the fields of Object and its subclasses)
    objects,           \* PDF.objects: the table, a sequence of identities
    current_position,  \* PDF.current_position
    xref_position,     \* PDF.xref_position
    sink,              \* the bytes received by the `output` of the write in progress
    pc,                \* "build" until write is called, then the position in
                       \*   PDF.write, "done" once it has returned
    writes,            \* number of completed calls of PDF.write
    base,              \* history: length of `sink` when the write in progress began
    snap,              \* history: offsets and xref_position left by the first write
    pageCalls,         \* history: the add_page calls, <<identity, number given>>
    lastCall,          \* history: the last Stream operator method called
    rendered           \* history: the last results of reading a `data` property

vars == <<heap, objects, current_position, xref_position, sink, pc, writes,
          base, snap, pageCalls, lastCall, rendered>>

(***************************************************************************)
(* Bounds of the model.                                                    *)
(***************************************************************************)
MaxObjects == 6      \* the table holds at most this many entries
MaxWrites == 2       \* PDF.write is called at most this many times
MaxStream == 2       \* operator methods called on one Stream
MaxText == 2         \* characters of a String's text

None == -1           \* Python's None, where a number is expected

(***************************************************************************)
(* Characters, str and bytes.                                              *)
(***************************************************************************)
\* The printable ASCII characters 32..95 and 97..126 (a TLA+ string cannot hold
\* the grave accent, 96, which no text of the model uses).
AsciiLow == " !\"#$%&'()*+,-./0123456789:;<=>?@ABCDEFGHIJKLMNOPQRSTUVWXYZ[\\]^_"

AsciiHigh == "abcdefghijklmnopqrstuvwxyz{|}~"

\* The one-byte string of the ASCII code point cp (printable, or newline).
Chr(cp) ==
    IF cp = 10 THEN "\n"
    ELSE IF cp < 96 THEN SubSeq(AsciiLow, cp - 31, cp - 31)
    ELSE SubSeq(AsciiHigh, cp - 96, cp - 96)

\* The code point of each one-character ASCII string.
OrdTable ==
    [c \in {Chr(cp) : cp \in ({10} \cup (32..126)) \ {96}} |->
        CHOOSE cp \in ({10} \cup (32..126)) \ {96} : Chr(cp) = c]

\* The code point of the one-character ASCII string c.
Ord(c) == OrdTable[c]

\* A str literal: the code points of the ASCII text s.
U(s) == [i \in 1..Len(s) |-> Ord(SubSeq(s, i, i))]

\* str.encode('ascii') raises UnicodeEncodeError on a code point above 127.
AsciiEncodable(text) == \A i \in 1..Len(text) : text[i] < 128

RECURSIVE AsciiEncodeFrom(_, _)
AsciiEncodeFrom(text, i) ==
    IF i > Len(text) THEN "" ELSE Chr(text[i]) \o AsciiEncodeFrom(text, i + 1)

AsciiEncode(text) == AsciiEncodeFrom(text, 1)

Digit(d) == SubSeq("0123456789", d + 1, d + 1)

\* str(n).encode('ascii') for an int n >= 0, as bytes.
RECURSIVE IntBytes(_)
IntBytes(n) == IF n < 10 THEN Digit(n) ELSE IntBytes(n \div 10) \o Digit(n % 10)

\* str(n) for an int n >= 0.
IntStr(n) == U(IntBytes(n))

\* format(n, '0<width>'): zero padded on the left, never truncated.
RECURSIVE ZeroPad(_, _)
ZeroPad(b, width) == IF Len(b) >= width THEN b ELSE ZeroPad("0" \o b, width)

\* sep.join(parts) for bytes.
RECURSIVE JoinFrom(_, _, _)
JoinFrom(parts, sep, i) ==
    IF i > Len(parts) THEN ""
    ELSE IF i = Len(parts) THEN parts[i]
    ELSE parts[i] \o sep \o JoinFrom(parts, sep, i + 1)

Join(parts, sep) == JoinFrom(parts, sep, 1)

\* sep.join(parts) for str.
RECURSIVE JoinStrFrom(_, _, _)
JoinStrFrom(parts, sep, i) ==
    IF i > Len(parts) THEN <<>>
    ELSE IF i = Len(parts) THEN parts[i]
    ELSE parts[i] \o sep \o JoinStrFrom(parts, sep, i + 1)

JoinStr(parts, sep) == JoinStrFrom(parts, sep, 1)

\* b.split(b'\n'): the pieces of b between its newlines, one more than it
\* has newlines.
Split(b) ==
    LET newlines == SelectSeq([i \in 1..Len(b) |-> i],
                              LAMBDA i : SubSeq(b, i, i) = "\n")
        n == Len(newlines)
    IN  [k \in 1..(n + 1) |->
            SubSeq(b, IF k = 1 THEN 1 ELSE newlines[k - 1] + 1,
                      IF k = n + 1 THEN Len(b) ELSE newlines[k] - 1)]

(***************************************************************************)
(* Python values.  int: v is the number.  float: v is the value in tenths  *)
(* (12.5 is 125), which covers floats with and without a fractional part.  *)
(* str: v is the tuple of code points.  bytes: v is the byte string.       *)
(***************************************************************************)
PyInt(n) == [kind |-> "int", v |-> n]

PyFloat(tenths) == [kind |-> "float", v |-> tenths]

PyStr(text) == [kind |-> "str", v |-> text]

PyBytes(b) == [kind |-> "bytes", v |-> b]

\* Object.__init__: the fields every Object starts with.
Object == [kind |-> "Object", number |-> None, offset |-> 0, generation |-> 0,
           free |-> "n"]

\* Dictionary.__init__: `values` is the sequence of <<key, value>> entries, in
\* insertion order, keys unique.
Dictionary(values) ==
    [kind |-> "Dictionary", number |-> None, offset |-> 0, generation |-> 0,
     free |-> "n", items |-> values]

\* Array.__init__
Array(array) ==
    [kind |-> "Array", number |-> None, offset |-> 0, generation |-> 0,
     free |-> "n", items |-> array]

\* Stream.__init__: `extra` is a plain dict, a sequence of <<key, value>>.
Stream(stream, extra) ==
    [kind |-> "Stream", number |-> None, offset |-> 0, generation |-> 0,
     free |-> "n", stream |-> stream, extra |-> extra]

\* String.__init__
String(string) ==
    [kind |-> "String", number |-> None, offset |-> 0, generation |-> 0,
     free |-> "n", string |-> string]

ObjectKinds == {"Object", "Dictionary", "Array", "Stream", "String"}

\* dict lookup and assignment on a sequence of <<key, value>> entries: an
\* assignment to a present key keeps its place, a new key goes last.
HasKey(d, key) == \E i \in 1..Len(d) : d[i][1] = key

DictGet(d, key) == d[CHOOSE i \in 1..Len(d) : d[i][1] = key][2]

DictSet(d, key, value) ==
    IF HasKey(d, key)
    THEN [i \in 1..Len(d) |-> IF d[i][1] = key THEN <<key, value>> ELSE d[i]]
    ELSE Append(d, <<key, value>>)

\* float.as_integer_ratio()[1] == 1
IsIntegral(item) == item.v % 10 = 0

\* str(item) of an int, a float or a str (repr of a float keeps one decimal).
StrOf(item) ==
    IF item.kind = "int" THEN IntStr(item.v)
    ELSE IF item.kind = "float"
         THEN IntStr(item.v \div 10) \o U(".") \o IntStr(item.v % 10)
    ELSE item.v

(***************************************************************************)
(* UTF-16 and hexadecimal.                                                 *)
(***************************************************************************)
BOM_UTF16_BE == <<254, 255>>

IsSurrogate(cp) == cp >= 55296 /\ cp <= 57343

\* str.encode('utf-16-be') raises UnicodeEncodeError on a lone surrogate.
Utf16Encodable(text) == \A i \in 1..Len(text) : ~IsSurrogate(text[i])

\* The big-endian bytes of one 16-bit code unit.
Unit16(u) == <<u \div 256, u % 256>>

\* The UTF-16-BE bytes of one code point: one unit, or a surrogate pair
\* above the basic plane.
Utf16Char(cp) ==
    IF cp < 65536 THEN Unit16(cp)
    ELSE Unit16(55296 + ((cp - 65536) \div 1024))
         \o Unit16(56320 + ((cp - 65536) % 1024))

RECURSIVE Utf16From(_, _)
Utf16From(text, i) ==
    IF i > Len(text) THEN <<>> ELSE Utf16Char(text[i]) \o Utf16From(text, i + 1)

Utf16BE(text) == Utf16From(text, 1)

HexDigit(d) == SubSeq("0123456789abcdef", d + 1, d + 1)

\* bytes.hex()
RECURSIVE HexFrom(_, _)
HexFrom(bs, i) ==
    IF i > Len(bs) THEN ""
    ELSE HexDigit(bs[i] \div 16) \o HexDigit(bs[i] % 16) \o HexFrom(bs, i + 1)

Hex(bs) == HexFrom(bs, 1)

(***************************************************************************)
(* _to_data and the data properties.                                       *)
(***************************************************************************)
RECURSIVE ToData(_), Data(_), DataList(_, _), DictLines(_, _)

\* StreamRender with Length short of the trailing newline.
StreamRenderShort(obj) ==
    LET stream == Join(DataList(obj.stream, 1), "\n")
        extra == Dictionary(DictSet(obj.extra, U("Length"), PyInt(Len(stream))))
    IN  [data |-> Join(<<Data(extra), "stream", stream, "endstream">>, "\n"),
         self |-> obj]

\* StreamRender with Length set on self.extra itself, not on a copy.
StreamRenderInPlace(obj) ==
    LET stream == Join(DataList(obj.stream, 1), "\n")
        extra == Dictionary(DictSet(obj.extra, U("Length"), PyInt(Len(stream) + 1)))
    IN  [data |-> Join(<<Data(extra), "stream", stream, "endstream">>, "\n"),
         self |-> [obj EXCEPT !.extra = extra.items]]

\* Stream.data on the object obj: the bytes, and the object as the call
\* leaves it.  Length is set on a copy of self.extra.
StreamRender(obj) ==
    LET stream == Join(DataList(obj.stream, 1), "\n")
        extra == Dictionary(DictSet(obj.extra, U("Length"), PyInt(Len(stream) + 1)))
    IN  [data |-> Join(<<Data(extra), "stream", stream, "endstream">>, "\n"),
         self |-> obj]

\* String.data on the object obj: the bytes, or the exception that leaves
\* the property.
StringRender(obj) ==
    IF obj.string.kind # "str" \/ AsciiEncodable(obj.string.v)
    THEN [exc |-> "", data |-> "(" \o ToData(obj.string) \o ")"]
    ELSE IF Utf16Encodable(StrOf(obj.string))
         THEN [exc |-> "",
               data |-> "<" \o Hex(BOM_UTF16_BE \o Utf16BE(StrOf(obj.string))) \o ">"]
         ELSE [exc |-> "UnicodeEncodeError", data |-> ""]

\* Dictionary.data
DictionaryData(obj) ==
    Join(<<"<<">> \o DictLines(obj.items, 1) \o <<">>">>, "\n")

\* Array.data
ArrayData(obj) == Join(<<"[">> \o DataList(obj.items, 1) \o <<"]">>, " ")

\* _to_data(item)
ToData(item) ==
    IF item.kind = "bytes" THEN item.v
    ELSE IF item.kind \in ObjectKinds THEN Data(item)
    ELSE IF item.kind = "float" /\ IsIntegral(item)
         THEN AsciiEncode(StrOf(PyInt(item.v \div 10)))
    ELSE AsciiEncode(StrOf(item))

\* obj.data, dispatched on the class of obj.
Data(obj) ==
    CASE obj.kind = "Dictionary" -> DictionaryData(obj)
      [] obj.kind = "Array" -> ArrayData(obj)
      [] obj.kind = "Stream" -> StreamRender(obj).data
      [] obj.kind = "String" -> StringRender(obj).data

\* [_to_data(item) for item in items], from index i.
DataList(items, i) ==
    IF i > Len(items) THEN <<>>
    ELSE <<ToData(items[i])>> \o DataList(items, i + 1)

\* The entry lines of Dictionary.data, from index i.
DictLines(d, i) ==
    IF i > Len(d) THEN <<>>
    ELSE <<"/" \o ToData(PyStr(d[i][1])) \o " " \o ToData(d[i][2])>>
         \o DictLines(d, i + 1)

\* str(obj.number): the number of an unregistered object is None.
NumStr(n) == IF n = None THEN U("None") ELSE IntStr(n)

\* Object.reference, a str
Reference(obj) ==
    NumStr(obj.number) \o U(" ") \o IntStr(obj.generation) \o U(" R")

\* Object.indirect
Indirect(obj) ==
    Join(<<AsciiEncode(NumStr(obj.number) \o U(" ") \o IntStr(obj.generation)
                       \o U(" obj")),
           Data(obj),
           "endobj">>, "\n")

(***************************************************************************)
(* The document assembler, class PDF.                                      *)
(***************************************************************************)
\* AddObject numbering from one.
AddObjectOneBased(h, objs, id) ==
    [heap |-> [h EXCEPT ![id].number = Len(objs) + 1],
     objects |-> Append(objs, id)]

\* PDF.add_object on the heap h and the table objs: the object is numbered
\* by the table's length and appended.
AddObject(h, objs, id) ==
    [heap |-> [h EXCEPT ![id].number = Len(objs)],
     objects |-> Append(objs, id)]

\* AddPage that leaves Count as it was.
AddPageUncounted(h, objs, id) ==
    LET added == AddObject(h, objs, id)
        items == added.heap["pages"].items
        kids == DictGet(items, U("Kids"))
        extended == [kids EXCEPT !.items =
                        @ \o <<PyInt(added.heap[id].number), PyInt(0), PyStr(U("R"))>>]
    IN  [heap |-> [added.heap EXCEPT !["pages"].items =
                        DictSet(items, U("Kids"), extended)],
         objects |-> added.objects]

\* PDF.add_page
AddPage(h, objs, id) ==
    LET pages == h["pages"].items
        counted == [h EXCEPT !["pages"].items =
                        DictSet(pages, U("Count"),
                                PyInt(DictGet(pages, U("Count")).v + 1))]
        added == AddObject(counted, objs, id)
        items == added.heap["pages"].items
        kids == DictGet(items, U("Kids"))
        extended == [kids EXCEPT !.items =
                        @ \o <<PyInt(added.heap[id].number), PyInt(0), PyStr(U("R"))>>]
    IN  [heap |-> [added.heap EXCEPT !["pages"].items =
                        DictSet(items, U("Kids"), extended)],
         objects |-> added.objects]

\* The objects a caller has constructed and may register: an empty page, a
\* content stream given a str operator, a String that needs the hexadecimal
\* form and a bytes operator, a String of one line, and a Dictionary the
\* caller has marked free.
Pool == {"page", "content", "title", "freed"}

Fixed == {"zero", "pages", "info", "catalog"}

\* The objects as their constructors leave them, before PDF.__init__ numbers
\* its own.
Constructed ==
    [id \in Fixed \cup Pool |->
        CASE id = "zero" -> [Object EXCEPT !.generation = 65535, !.free = "f"]
          [] id = "pages" ->
                Dictionary(<< <<U("Type"), PyStr(U("/Pages"))>>,
                              <<U("Kids"), Array(<<>>)>>,
                              <<U("Count"), PyInt(0)>> >>)
          [] id = "info" -> Dictionary(<<>>)
          [] id = "catalog" -> Dictionary(<< <<U("Type"), PyStr(U("/Catalog"))>> >>)
          [] id = "page" -> Dictionary(<< <<U("Type"), PyStr(U("/Page"))>> >>)
          [] id = "content" ->
                Stream(<<PyStr(U("BT")), String(PyStr(<<233>>)), PyBytes("ET")>>, <<>>)
          [] id = "title" -> String(PyStr(U("A (draft)")))
          [] id = "freed" -> [Dictionary(<<>>) EXCEPT !.free = "f"]]

\* PDF.__init__: the sentinel, Pages, Info and Catalog are registered in this
\* order; the Catalog's Pages entry is the reference Pages has by then.
Constructor ==
    LET zero == AddObject(Constructed, <<>>, "zero")
        pages == AddObject(zero.heap, zero.objects, "pages")
        info == AddObject(pages.heap, pages.objects, "info")
        linked == [info.heap EXCEPT !["catalog"].items =
                      Append(@, <<U("Pages"), PyStr(Reference(info.heap["pages"]))>>)]
    IN  AddObject(linked, info.objects, "catalog")

NoRender == [id |-> "", prop |-> "", data |-> "", exc |-> ""]

NoCall == [name |-> "", args |-> <<>>]

InitHistory ==
    /\ base = 0
    /\ snap = [offsets |-> <<>>, xref |-> None]
    /\ pageCalls = <<>>
    /\ lastCall = NoCall
    /\ rendered = NoRender

Init ==
    /\ heap = Constructor.heap
    /\ objects = Constructor.objects
    /\ current_position = 0
    /\ xref_position = None
    /\ sink = ""
    /\ pc = "build"
    /\ writes = 0
    /\ InitHistory

\* The document is built before it is written: objects are registered
\* before the first call of write.
Building == pc = "build"

\* No write is in progress.
Idle == pc \in {"build", "done"}

add_object(id) ==
    /\ Building
    /\ Len(objects) < MaxObjects
    /\ LET r == AddObject(heap, objects, id)
       IN  heap' = r.heap /\ objects' = r.objects
    /\ UNCHANGED <<current_position, xref_position, sink, pc, writes, base, snap,
                   pageCalls, lastCall, rendered>>

add_page(id) ==
    /\ Building
    /\ Len(objects) < MaxObjects
    /\ LET r == AddPage(heap, objects, id)
       IN  /\ heap' = r.heap
           /\ objects' = r.objects
           /\ pageCalls' = Append(pageCalls, <<id, r.heap[id].number>>)
    /\ UNCHANGED <<current_position, xref_position, sink, pc, writes, base, snap,
                   lastCall, rendered>>

\* WriteLine that leaves the newline out of the count.
WriteLineUncounted(w, content) ==
    [w EXCEPT !.pos = @ + Len(content), !.out = @ \o content \o "\n"]

\* PDF.write_line on the writer state w = [heap, pos, out].
WriteLine(w, content) ==
    [w EXCEPT !.pos = @ + Len(content) + 1, !.out = @ \o content \o "\n"]

\* Consecutive write_line calls, one per element of lines, from index i.
RECURSIVE WriteLines(_, _, _)
WriteLines(w, lines, i) ==
    IF i > Len(lines) THEN w ELSE WriteLines(WriteLine(w, lines[i]), lines, i + 1)

\* PDF.write_object
WriteObject(w, obj) == WriteLines(w, Split(Data(obj)), 1)

\* PDF.write_header
WriteHeader(w) == WriteLine(w, "%PDF-1.7")

\* The loop of PDF.write_body over the table objs, from index i.
RECURSIVE WriteBodyFrom(_, _, _)
WriteBodyFrom(w, objs, i) ==
    IF i > Len(objs) THEN w
    ELSE IF w.heap[objs[i]].free = "f" THEN WriteBodyFrom(w, objs, i + 1)
    ELSE LET placed == [w EXCEPT !.heap[objs[i]].offset = w.pos]
         IN  WriteBodyFrom(WriteLine(placed, Indirect(placed.heap[objs[i]])),
                           objs, i + 1)

\* PDF.write_body
WriteBody(w, objs) == WriteBodyFrom(w, objs, 1)

\* One entry of the cross-reference table.
XrefEntry(obj) ==
    ZeroPad(IntBytes(obj.offset), 10) \o " " \o ZeroPad(IntBytes(obj.generation), 5)
    \o " " \o obj.free \o " "

\* WriteXref that leaves the sentinel's entry out of the table.
WriteXrefLive(w, objs) ==
    WriteLines(WriteLine(WriteLine(w, "xref"), "0 " \o IntBytes(Len(objs))),
               [i \in 1..Len(objs) |-> XrefEntry(w.heap[objs[i]])], 2)

\* PDF.write_cross_reference_table, after xref_position is recorded.
WriteXref(w, objs) ==
    WriteLines(WriteLine(WriteLine(w, "xref"), "0 " \o IntBytes(Len(objs))),
               [i \in 1..Len(objs) |-> XrefEntry(w.heap[objs[i]])], 1)

\* WriteTrailer that prints the position reached instead of the recorded one.
WriteTrailerHere(w, objs, xref) ==
    LET trailer ==
            Dictionary(<< <<U("Size"), PyInt(Len(objs))>>,
                          <<U("Root"), PyStr(Reference(w.heap["catalog"]))>>,
                          <<U("Info"), PyStr(Reference(w.heap["info"]))>> >>)
        w1 == WriteObject(WriteLine(w, "trailer"), trailer)
        w2 == WriteLine(WriteLine(w1, "startxref"), AsciiEncode(NumStr(w1.pos)))
    IN  WriteLine(w2, "%%EOF")

\* PDF.write_trailer
WriteTrailer(w, objs, xref) ==
    LET trailer ==
            Dictionary(<< <<U("Size"), PyInt(Len(objs))>>,
                          <<U("Root"), PyStr(Reference(w.heap["catalog"]))>>,
                          <<U("Info"), PyStr(Reference(w.heap["info"]))>> >>)
        w1 == WriteObject(WriteLine(w, "trailer"), trailer)
        w2 == WriteLine(WriteLine(w1, "startxref"), AsciiEncode(NumStr(xref)))
    IN  WriteLine(w2, "%%EOF")

Writer == [heap |-> heap, pos |-> current_position, out |-> sink]

\* The outputs a caller may pass to write: an empty sink, and a sink that
\* already holds a line or, after a write, the sink of that write.
Outputs == {"", IF writes = 0 THEN "%junk\n" ELSE sink}

\* PDF.write, first call: write_header(output)
write_header ==
    /\ Idle
    /\ writes < MaxWrites
    /\ \E output \in Outputs :
          LET w == WriteHeader([Writer EXCEPT !.out = output])
          IN  /\ sink' = w.out
              /\ current_position' = w.pos
              /\ base' = Len(output)
    /\ pc' = "header"
    /\ UNCHANGED <<heap, objects, xref_position, writes, snap, pageCalls,
                   lastCall, rendered>>

\* PDF.write, second call: write_body(output)
write_body ==
    /\ pc = "header"
    /\ LET w == WriteBody(Writer, objects)
       IN  heap' = w.heap /\ sink' = w.out /\ current_position' = w.pos
    /\ pc' = "body"
    /\ UNCHANGED <<objects, xref_position, writes, base, snap, pageCalls,
                   lastCall, rendered>>

\* PDF.write, third call: write_cross_reference_table(output)
write_cross_reference_table ==
    /\ pc = "body"
    /\ xref_position' = current_position
    /\ LET w == WriteXref(Writer, objects)
       IN  sink' = w.out /\ current_position' = w.pos
    /\ pc' = "xref"
    /\ UNCHANGED <<heap, objects, writes, base, snap, pageCalls,
                   lastCall, rendered>>

\* PDF.write, fourth call: write_trailer(output); write returns.
write_trailer ==
    /\ pc = "xref"
    /\ LET w == WriteTrailer(Writer, objects, xref_position)
       IN  sink' = w.out /\ current_position' = w.pos
    /\ pc' = "done"
    /\ writes' = writes + 1
    /\ snap' = IF writes = 0
               THEN [offsets |-> [i \in 1..Len(objects) |-> heap[objects[i]].offset],
                     xref |-> xref_position]
               ELSE snap
    /\ UNCHANGED <<heap, objects, xref_position, base, pageCalls,
                   lastCall, rendered>>

Next ==
    \/ \E id \in Pool : add_object(id)
    \/ \E id \in Pool : add_page(id)
    \/ write_header
    \/ write_body
    \/ write_cross_reference_table
    \/ write_trailer

Spec == Init /\ [][Next]_vars

(***************************************************************************)
(* Properties of the document assembler, stated for Spec.                  *)
(***************************************************************************)
\* The position in b of the first byte of line k of Split(b).
RECURSIVE LineStart(_, _)
LineStart(lines, k) ==
    IF k = 1 THEN 0 ELSE LineStart(lines, k - 1) + Len(lines[k - 1]) + 1

\* b holds the line `line` starting at byte position pos (counted from 0).
LineAt(b, pos, line) ==
    /\ pos = 0 \/ SubSeq(b, pos, pos) = "\n"
    /\ SubSeq(b, pos + 1, pos + Len(line) + 1) = line \o "\n"

\* "<number> <generation> obj" of the object obj.
ObjLine(obj) ==
    IntBytes(obj.number) \o " " \o IntBytes(obj.generation) \o " obj"

\* The first write has returned, and it wrote to an empty sink.
FirstWriteDone == pc = "done" /\ writes = 1 /\ base = 0

\* C1: after one write to an initially empty sink, every object whose free
\* flag is 'n' has as offset the exact byte position in the sink of the
\* first byte of its "<number> <generation> obj" line, multi-line data
\* before it included.
OffsetsExact ==
    FirstWriteDone =>
        \A i \in 1..Len(objects) :
            LET obj == heap[objects[i]]
            IN  obj.free = "n" => LineAt(sink, obj.offset, ObjLine(obj))

\* C1 witness: a written document where a non-free object follows a Stream,
\* whose block spans several lines.
OffsetsExactWitness ==
    /\ FirstWriteDone
    /\ \E i \in 1..Len(objects) : \E j \in (i + 1)..Len(objects) :
          /\ objects[i] = "content"
          /\ heap[objects[j]].free = "n"
          /\ heap[objects[j]].offset > heap[objects[i]].offset

\* C2: a second write of an unmodified, written document leaves every
\* object's offset and xref_position as the first write recorded them.
RewriteSameOffsets ==
    (pc = "done" /\ writes = 2) =>
        /\ [i \in 1..Len(objects) |-> heap[objects[i]].offset] = snap.offsets
        /\ xref_position = snap.xref

\* The lines of the cross-reference section of the last write: the index in
\* Split(sink) of its "xref" line.
XrefIndex(lines) ==
    CHOOSE k \in 1..Len(lines) :
        lines[k] = "xref" /\ \A j \in (k + 1)..Len(lines) : lines[j] # "xref"

\* C3: write emits "0 <count>" and then exactly <count> entries, one per
\* table object in table order, free ones included, <count> being the table
\* length; the first entry is the sentinel's, generation 65535 and flag f;
\* the sentinel has no body block.
XrefTableComplete ==
    pc = "done" =>
        LET lines == Split(sink)
            k == XrefIndex(lines)
            n == Len(objects)
        IN  /\ \E j \in 1..Len(lines) : lines[j] = "xref"
            /\ lines[k + 1] = "0 " \o IntBytes(n)
            /\ \A i \in 1..n :
                  LET obj == heap[objects[i]]
                      entry == lines[k + 1 + i]
                  IN  /\ Len(entry) = 19
                      /\ SubSeq(entry, 1, 11) = ZeroPad(IntBytes(obj.offset), 10) \o " "
                      /\ SubSeq(entry, 12, 17)
                            = ZeroPad(IntBytes(obj.generation), 5) \o " "
                      /\ SubSeq(entry, 18, 19) = obj.free \o " "
            /\ lines[k + 2 + n] = "trailer"
            /\ objects[1] = "zero"
            /\ SubSeq(lines[k + 2], 12, 19) = "65535 f "
            /\ \A j \in 1..Len(lines) : lines[j] # "0 65535 obj"

\* C3 witness: a written table that holds a free object besides the sentinel.
XrefTableWitness ==
    /\ pc = "done"
    /\ \E i \in 2..Len(objects) : heap[objects[i]].free = "f"
    /\ \E i \in 2..Len(objects) : heap[objects[i]].free = "n" /\ i > 4

Kids == DictGet(heap["pages"].items, U("Kids"))

Count == DictGet(heap["pages"].items, U("Count")).v

\* The number of entries of the table that hold the object id.
Registrations(id) == Cardinality({i \in 1..Len(objects) : objects[i] = id})

\* C5 as stated: Count is the number of add_page calls and Kids holds, per
\* call and in call order, a reference that renders as "<page.number> 0 R",
\* page.number being the page's number.
KidsNamePages ==
    /\ Count = Len(pageCalls)
    /\ ArrayData(Kids) =
          Join(<<"[">>
               \o [k \in 1..Len(pageCalls) |->
                      IntBytes(heap[pageCalls[k][1]].number) \o " 0 R"]
               \o <<"]">>, " ")

\* C5 amended: Count is the number of add_page calls and Kids holds, per
\* call and in call order, a reference that renders as "<n> 0 R", n being
\* the number that call gave the page, which is its index in the table; n is
\* the page's number as long as the page is registered once.  One add_page
\* on a fresh document gives Count 1 and Kids "[ 4 0 R ]".
KidsNameRegistrations ==
    /\ Count = Len(pageCalls)
    /\ Len(Kids.items) = 3 * Len(pageCalls)
    /\ ArrayData(Kids) =
          Join(<<"[">>
               \o [k \in 1..Len(pageCalls) |-> IntBytes(pageCalls[k][2]) \o " 0 R"]
               \o <<"]">>, " ")
    /\ \A k \in 1..Len(pageCalls) :
          /\ pageCalls[k][2] + 1 \in 1..Len(objects)
          /\ objects[pageCalls[k][2] + 1] = pageCalls[k][1]
          /\ Registrations(pageCalls[k][1]) = 1
                => heap[pageCalls[k][1]].number = pageCalls[k][2]
    /\ (Len(objects) = 5 /\ Len(pageCalls) = 1)
          => (Count = 1 /\ ArrayData(Kids) = "[ 4 0 R ]")

\* C5 witness: two different pages added to a fresh document.
KidsWitness ==
    /\ Len(pageCalls) = 2
    /\ pageCalls[1][2] = 4
    /\ pageCalls[2][2] = 5
    /\ pageCalls[1][1] # pageCalls[2][1]

\* C6 as stated: the object at table index i has number i, so numbers are
\* pairwise distinct.
NumbersAreIndices ==
    \A i \in 1..Len(objects) : heap[objects[i]].number = i - 1

\* The table holds no object twice.
NoReRegistration == \A id \in DOMAIN heap : Registrations(id) <= 1

\* C6 amended: a fresh document holds sentinel 0, Pages 1, Info 2, Catalog 3;
\* while no object is registered a second time the object at index i has
\* number i and numbers are pairwise distinct; in every case the table only
\* grows, by appending, an object's number is the index of its last
\* registration, and a number changes only when that object is registered
\* again (write changes neither table nor numbers).
NumbersStable ==
    /\ [](/\ SubSeq(objects, 1, 4) = <<"zero", "pages", "info", "catalog">>
          /\ heap["zero"].number = 0 /\ heap["pages"].number = 1
          /\ heap["info"].number = 2 /\ heap["catalog"].number = 3
          /\ NoReRegistration => NumbersAreIndices
          /\ NoReRegistration =>
                \A i, j \in 1..Len(objects) :
                    i # j => heap[objects[i]].number # heap[objects[j]].number
          /\ \A i \in 1..Len(objects) :
                /\ heap[objects[i]].number + 1 \in i..Len(objects)
                /\ objects[heap[objects[i]].number + 1] = objects[i])
    /\ [][/\ Len(objects') >= Len(objects)
          /\ SubSeq(objects', 1, Len(objects)) = objects
          /\ \A id \in DOMAIN heap :
                heap'[id].number # heap[id].number
                    => /\ Len(objects') = Len(objects) + 1
                       /\ objects'[Len(objects')] = id
                       /\ heap'[id].number = Len(objects)
          /\ ~Building => (objects' = objects
                       /\ \A id \in DOMAIN heap : heap'[id].number = heap[id].number)
         ]_vars

\* C6 witness: a written document with two registered objects of the caller.
NumbersWitness ==
    /\ pc = "done"
    /\ Len(objects) = 6
    /\ NoReRegistration
    /\ heap[objects[6]].number = 5

\* C10: after one write to an initially empty sink the output is header,
\* body, cross-reference table, trailer in this order; the number on the line
\* after "startxref" is xref_position, the byte position of the "xref" line,
\* above the offset of every non-free object; "%%EOF" is the last line.
TrailerPointsAtXref ==
    FirstWriteDone =>
        LET lines == Split(sink)
            n == Len(lines)
            k == XrefIndex(lines)
        IN  /\ lines[1] = "%PDF-1.7"
            /\ lines[n] = "" /\ lines[n - 1] = "%%EOF"
            /\ lines[n - 2] = IntBytes(xref_position)
            /\ lines[n - 3] = "startxref"
            /\ LineAt(sink, xref_position, "xref")
            /\ LineStart(lines, k) = xref_position
            /\ \A i \in 1..Len(objects) :
                  heap[objects[i]].free = "n"
                      => /\ heap[objects[i]].offset >= Len(lines[1]) + 1
                         /\ heap[objects[i]].offset < xref_position
            /\ \E t \in (k + 1)..(n - 4) :
                  /\ lines[t] = "trailer"
                  /\ \A j \in 1..(t - 1) : lines[j] # "trailer"
            /\ xref_position < current_position
            /\ current_position = Len(sink)

\* C10 witness: a finished first write of a document with a page.
TrailerWitness ==
    /\ FirstWriteDone
    /\ Len(pageCalls) = 1
    /\ xref_position > heap["page"].offset
    /\ heap["page"].offset > 0

(***************************************************************************)
(* The object model on its own: a Stream built by its operator methods and *)
(* the properties data, indirect and reference read from unregistered      *)
(* objects.                                                                *)
(***************************************************************************)
\* The numbers passed to operator methods: ints, a float without and a float
\* with a fractional part.
Numbers == {PyInt(0), PyFloat(120), PyFloat(125)}

Ordinates == {PyInt(10), PyFloat(120)}

Sizes == {PyFloat(120), PyFloat(125)}

\* The `extra` a caller gives a Stream: nothing, or entries with a Length of
\* its own.
Extras ==
    {<<>>,
     << <<U("Length"), PyInt(99)>>, <<U("Filter"), PyStr(U("/None"))>> >>}

InitStream ==
    /\ \E extra \in Extras :
          heap = [id \in {"s", "d", "a", "t"} |->
                    CASE id = "s" -> Stream(<<>>, extra)
                      [] id = "d" -> Dictionary(<< <<U("W"), PyFloat(120)>>,
                                                  <<U("H"), PyFloat(125)>>,
                                                  <<U("A"), Array(<<PyFloat(120)>>)>> >>)
                      [] id = "a" -> Array(<<PyFloat(120), PyFloat(125), PyInt(3)>>)
                      [] id = "t" -> String(PyStr(<<65, 8364>>))]
    /\ objects = <<>>
    /\ current_position = 0
    /\ xref_position = None
    /\ sink = ""
    /\ pc = "build"
    /\ writes = 0
    /\ InitHistory

\* The f-string of an operator method: the arguments formatted by str and
\* the operator, separated by spaces.
Operator(args, op) ==
    JoinStr([i \in 1..Len(args) |-> StrOf(args[i])] \o <<U(op)>>, U(" "))

\* self.stream.append(token) in the operator method `name` called with args.
AppendOperator(name, args, token) ==
    /\ Len(heap["s"].stream) < MaxStream
    /\ heap' = [heap EXCEPT !["s"].stream = Append(@, PyStr(token))]
    /\ lastCall' = [name |-> name, args |-> args]
    /\ rendered' = NoRender
    /\ UNCHANGED <<objects, current_position, xref_position, sink, pc, writes, base,
                   snap, pageCalls>>

line_to(x, y) == AppendOperator("line_to", <<x, y>>, Operator(<<x, y>>, "l"))

move_to(x, y) == AppendOperator("move_to", <<x, y>>, Operator(<<x, y>>, "m"))

rectangle(x, y, width, height) ==
    AppendOperator("rectangle", <<x, y, width, height>>,
                   Operator(<<x, y, width, height>>, "re"))

set_line_width(width) ==
    AppendOperator("set_line_width", <<width>>, Operator(<<width>>, "w"))

stroke == AppendOperator("stroke", <<>>, U("S"))

\* Reading obj.data, obj.indirect or obj.reference: the result, and the
\* object as the read leaves it.
Property(obj, prop) ==
    LET after == IF obj.kind = "Stream" /\ prop # "reference"
                 THEN StreamRender(obj).self
                 ELSE obj
    IN  CASE prop = "reference" ->
                [exc |-> "", data |-> AsciiEncode(Reference(obj)), self |-> after]
          [] prop = "indirect" ->
                [exc |-> "", data |-> Indirect(obj), self |-> after]
          [] prop = "data" /\ obj.kind = "String" ->
                [exc |-> StringRender(obj).exc, data |-> StringRender(obj).data,
                 self |-> after]
          [] prop = "data" /\ obj.kind # "String" ->
                [exc |-> "", data |-> Data(obj), self |-> after]

Read(id, prop) ==
    /\ LET r == Property(heap[id], prop)
       IN  /\ rendered' = [id |-> id, prop |-> prop, data |-> r.data, exc |-> r.exc]
           /\ heap' = [heap EXCEPT ![id] = r.self]
    /\ UNCHANGED <<objects, current_position, xref_position, sink, pc, writes, base,
                   snap, pageCalls, lastCall>>

NextStream ==
    \/ \E x \in Numbers, y \in Ordinates : move_to(x, y)
    \/ \E x \in Numbers : line_to(x, x)
    \/ \E size \in Sizes : rectangle(PyInt(0), PyInt(0), size, size)
    \/ \E width \in Numbers : set_line_width(width)
    \/ stroke
    \/ \E id \in DOMAIN heap : Read(id, "data")
    \/ \E prop \in {"indirect", "reference"} : Read("s", prop)

SpecStream == InitStream /\ [][NextStream]_vars

\* The PDF operator an operator method writes.
OperatorOf(name) ==
    CASE name = "move_to" -> "m"
      [] name = "line_to" -> "l"
      [] name = "rectangle" -> "re"
      [] name = "set_line_width" -> "w"
      [] name = "stroke" -> "S"

\* C4: the token an operator method appends holds, for each argument v, the
\* token _to_data(v) that a Dictionary or an Array holds for v; a float with
\* zero fractional part has no decimal point there.
OperatorsConvertArguments ==
    lastCall.name # "" =>
        ToData(heap["s"].stream[Len(heap["s"].stream)])
            = Join([i \in 1..Len(lastCall.args) |-> ToData(lastCall.args[i])]
                   \o <<OperatorOf(lastCall.name)>>, " ")

\* The index of the line that closes the dictionary of a rendered Stream.
DictEnd(lines) ==
    CHOOSE e \in 1..Len(lines) :
        lines[e] = ">>" /\ \A j \in 1..(e - 1) : lines[j] # ">>"

\* The operator payload of a rendered Stream: what lies between the line
\* "stream" and the line "endstream".
Payload(lines) == Join(SubSeq(lines, DictEnd(lines) + 2, Len(lines) - 1), "\n")

\* C7: a rendered Stream holds exactly one Length entry, and its value is
\* the byte length of the payload plus one, for the operator list as it is
\* at that render; an empty list gives Length 1 and a Length supplied in
\* extra is overridden.
LengthIsPayloadPlusOne ==
    (rendered.id = "s" /\ rendered.prop = "data") =>
        LET lines == Split(rendered.data)
            e == DictEnd(lines)
            length == "/Length " \o IntBytes(Len(Payload(lines)) + 1)
        IN  /\ lines[1] = "<<"
            /\ lines[e + 1] = "stream"
            /\ lines[Len(lines)] = "endstream"
            /\ Payload(lines) = Join(DataList(heap["s"].stream, 1), "\n")
            /\ Cardinality({j \in 2..(e - 1) : SubSeq(lines[j], 1, 8) = "/Length "}) = 1
            /\ \E j \in 2..(e - 1) : lines[j] = length
            /\ heap["s"].stream = <<>> => length = "/Length 1"

\* C7 witness: a Stream given its own Length, rendered after two operators.
LengthWitness ==
    /\ rendered.id = "s" /\ rendered.prop = "data"
    /\ Len(heap["s"].stream) = 2
    /\ HasKey(heap["s"].extra, U("Length"))
    /\ DictGet(heap["s"].extra, U("Length")).v = 99

\* C9: reading data, indirect or reference (the steps that leave a result
\* in `rendered`) changes no object, so a Stream's extra gains or changes no
\* Length; a second read, with nothing called in between, returns the same
\* bytes.
ReadingIsPure ==
    [][rendered'.id # "" =>
          /\ heap' = heap
          /\ (rendered.id = rendered'.id /\ rendered.prop = rendered'.prop)
                => rendered'.data = rendered.data
      ]_vars

\* C9 witness: a Stream with operators and no Length in extra has been
\* rendered.
ReadingWitness ==
    /\ rendered.id = "s" /\ rendered.prop = "data"
    /\ Len(heap["s"].stream) > 0
    /\ ~HasKey(heap["s"].extra, U("Length"))

(***************************************************************************)
(* String.data over texts of ASCII, Latin-1, other basic-plane,            *)
(* supplementary and lone-surrogate characters.                            *)
(***************************************************************************)
\* "A", "(", e-acute, the euro sign, an emoji, a lone high surrogate.
Alphabet == {65, 40, 233, 8364, 128512, 55296}

Texts == UNION {[1..n -> Alphabet] : n \in 0..MaxText}

InitString ==
    /\ \E text \in Texts : heap = [id \in {"t"} |-> String(PyStr(text))]
    /\ objects = <<>>
    /\ current_position = 0
    /\ xref_position = None
    /\ sink = ""
    /\ pc = "build"
    /\ writes = 0
    /\ InitHistory

NextString == \E prop \in {"data", "reference"} : Read("t", prop)

SpecString == InitString /\ [][NextString]_vars

\* C8: String.data returns a result for every text and never raises.
StringNeverRaises ==
    (rendered.id = "t" /\ rendered.prop = "data") => rendered.exc = ""

====
